---- MODULE Spec2Model ----
(***************************************************************************)
(* The Sphinx configuration modules docs/conf.py and readthedocs/conf.py   *)
(* of Visplot.  Each file is modelled by the token stream of its logical   *)
(* lines (comments and blank lines carry no tokens).  Loading a file is    *)
(* what the documentation builder does with a conf.py: it compiles the     *)
(* whole file, then executes the statements one by one in a fresh          *)
(* namespace that already binds __file__ to the path of the file.          *)
(***************************************************************************)
EXTENDS Integers, Sequences, FiniteSets, TLC

VARIABLES status, pc, ns, code, env, loads, prevNs, prevEnv

vars == <<status, pc, ns, code, env, loads, prevNs, prevEnv>>

\* How many times each configuration file is loaded.
MaxLoads == 2

\* The directories a checkout of the repository may live in.
Envs == {"/home/user/visplot", "/builds/visplot"}

Files == {"docs", "readthedocs"}

-----------------------------------------------------------------------------
(* Tokens *)

N(s) == [t |-> "NAME", v |-> s, n |-> 0, q |-> ""]
O(s) == [t |-> "OP", v |-> s, n |-> 0, q |-> ""]
I(k) == [t |-> "NUMBER", v |-> "", n |-> k, q |-> ""]
\* a string literal written with single quotes
Sq(s) == [t |-> "STRING", v |-> s, n |-> 0, q |-> "'"]
\* a string literal written with double quotes
Dq(s) == [t |-> "STRING", v |-> s, n |-> 0, q |-> "\""]

-----------------------------------------------------------------------------
(* Values *)

Unbound == [kind |-> "unbound", str |-> "", num |-> 0, items |-> <<>>]
Str(s) == [kind |-> "str", str |-> s, num |-> 0, items |-> <<>>]
Num(k) == [kind |-> "int", str |-> "", num |-> k, items |-> <<>>]
Bool(b) == [kind |-> "bool", str |-> "", num |-> IF b THEN 1 ELSE 0, items |-> <<>>]
None == [kind |-> "none", str |-> "", num |-> 0, items |-> <<>>]
List(xs) == [kind |-> "list", str |-> "", num |-> 0, items |-> xs]
\* the result of evaluating a name that is not bound
NameError == [kind |-> "NameError", str |-> "", num |-> 0, items |-> <<>>]

-----------------------------------------------------------------------------
(* The two files *)

\* docs/conf.py line 40 with the logo located relative to the file
DocsHtmlLogoFromFile == <<N("html_logo"), O("="), N("__file__")>>

DocsHtmlLogo == <<N("html_logo"), O("="), Dq("figs/visplot-icon.png")>>

\* docs/conf.py line 49 assigning to the name of line 48
DocsHtmlCssFilesAsStaticPath ==
    <<N("html_static_path"), O("="), O("["), Dq("visplot.css"), O("]")>>

DocsHtmlCssFiles ==
    <<N("html_css_files"), O("="), O("["), Dq("visplot.css"), O("]")>>

DocsConf ==
    << <<N("project"), O("="), Sq("Visplot")>>,
       <<N("copyright"), O("="), Sq("2026, irl, ega")>>,
       <<N("author"), O("="), Sq("irl, ega")>>,
       <<N("extensions"), O("="), O("["),
         Dq("sphinx.ext.autosectionlabel"), O(","),
         Dq("sphinx.ext.autodoc"), O(","),
         Dq("sphinx.ext.autosummary"), O(","),
         Dq("sphinx.ext.doctest"), O(","),
         Dq("sphinx.ext.todo"), O(","),
         Dq("sphinx.ext.mathjax"), O(","),
         Dq("sphinx.ext.ifconfig"), O(","),
         Dq("sphinx.ext.viewcode"),
         O("]")>>,
       <<N("templates_path"), O("="), O("["), Sq("_templates"), O("]")>>,
       <<N("exclude_patterns"), O("="), O("["), Sq("_build"), O(","),
         Sq("Thumbs.db"), O(","), Sq(".DS_Store"), O("]")>>,
       <<N("autosectionlabel_prefix_document"), O("="), N("True")>>,
       <<N("autosectionlabel_maxdepth"), O("="), I(4)>>,
       <<N("html_theme"), O("="), Sq("sphinx_rtd_theme")>>,
       DocsHtmlLogo,
       <<N("html_title"), O("="), Dq("Visplot")>>,
       <<N("html_short_title"), O("="), Dq("Visplot")>>,
       <<N("html_static_path"), O("="), O("["), Dq("_static"), O("]")>>,
       DocsHtmlCssFiles >>

\* readthedocs/conf.py lines 16-25 without the comma after "sphinx.ext.ifconfig"
RtdExtensionsMissingComma ==
    <<N("extensions"), O("="), O("["),
      Dq("sphinx.ext.autosectionlabel"), O(","),
      Dq("sphinx.ext.autodoc"), O(","),
      Dq("sphinx.ext.autosummary"), O(","),
      Dq("sphinx.ext.doctest"), O(","),
      Dq("sphinx.ext.todo"), O(","),
      Dq("sphinx.ext.mathjax"), O(","),
      Dq("sphinx.ext.ifconfig"),
      Dq("sphinx.ext.viewcode"),
      O("]")>>

RtdExtensions ==
    <<N("extensions"), O("="), O("["),
      Dq("sphinx.ext.autosectionlabel"), O(","),
      Dq("sphinx.ext.autodoc"), O(","),
      Dq("sphinx.ext.autosummary"), O(","),
      Dq("sphinx.ext.doctest"), O(","),
      Dq("sphinx.ext.todo"), O(","),
      Dq("sphinx.ext.mathjax"), O(","),
      Dq("sphinx.ext.ifconfig"), O(","),
      Dq("sphinx.ext.viewcode"),
      O("]")>>

\* readthedocs/conf.py line 43 naming another directory
RtdHtmlStaticPathOtherDir ==
    <<N("html_static_path"), O("="), O("["), Sq("static"), O("]")>>

\* readthedocs/conf.py line 43 without the list brackets
RtdHtmlStaticPathBareString == <<N("html_static_path"), O("="), Sq("_static")>>

\* readthedocs/conf.py line 43 without the closing bracket
RtdHtmlStaticPathUnclosed == <<N("html_static_path"), O("="), O("["), Sq("_static")>>

RtdHtmlStaticPath ==
    <<N("html_static_path"), O("="), O("["), Sq("_static"), O("]")>>

ReadthedocsConf ==
    << <<N("project"), O("="), Sq("Visplot")>>,
       <<N("copyright"), O("="), Sq("2026, irl, ega")>>,
       <<N("author"), O("="), Sq("irl, ega")>>,
       RtdExtensions,
       <<N("templates_path"), O("="), O("["), Sq("_templates"), O("]")>>,
       <<N("exclude_patterns"), O("="), O("["), Sq("_build"), O(","),
         Sq("Thumbs.db"), O(","), Sq(".DS_Store"), O("]")>>,
       <<N("autosectionlabel_prefix_document"), O("="), N("True")>>,
       <<N("autosectionlabel_maxdepth"), O("="), I(4)>>,
       <<N("html_theme"), O("="), Sq("sphinx_rtd_theme")>>,
       <<N("html_logo"), O("="), Dq("figs/visplot-icon.png")>>,
       <<N("html_title"), O("="), Dq("Visplot")>>,
       <<N("html_short_title"), O("="), Dq("Visplot")>>,
       RtdHtmlStaticPath >>

Source(f) == IF f = "docs" THEN DocsConf ELSE ReadthedocsConf

Keywords == {"True", "False", "None"}

\* the name the loader binds before it executes the file
FileName == "__file__"

TokensOf(f) ==
    UNION { { Source(f)[i][j] : j \in 1..Len(Source(f)[i]) } : i \in 1..Len(Source(f)) }

\* every identifier a statement of either file can bind or read
Names ==
    ({ tk.v : tk \in { x \in TokensOf("docs") \cup TokensOf("readthedocs") : x.t = "NAME" } }
        \ Keywords) \cup {FileName}

-----------------------------------------------------------------------------
(* Compilation: tokens of a logical line -> statement *)

ConstantNode(val) == [node |-> "Constant", val |-> val, id |-> "", elts |-> <<>>]
NameNode(id) == [node |-> "Name", val |-> Unbound, id |-> id, elts |-> <<>>]
ListNode(elts) == [node |-> "List", val |-> Unbound, id |-> "", elts |-> elts]
InvalidNode == [node |-> "Invalid", val |-> Unbound, id |-> "", elts |-> <<>>]

IsAtom(tk) == tk.t \in {"STRING", "NUMBER", "NAME"}

\* the quote character of a string literal is not part of its value
AtomNode(tk) ==
    IF tk.t = "STRING" THEN ConstantNode(Str(tk.v))
    ELSE IF tk.t = "NUMBER" THEN ConstantNode(Num(tk.n))
    ELSE IF tk.v = "True" THEN ConstantNode(Bool(TRUE))
    ELSE IF tk.v = "False" THEN ConstantNode(Bool(FALSE))
    ELSE IF tk.v = "None" THEN ConstantNode(None)
    ELSE NameNode(tk.v)

IsStrConstant(nd) == nd.node = "Constant" /\ nd.val.kind = "str"

\* comma-separated atoms, an optional trailing comma; adjacent string
\* literals are one literal (implicit concatenation)
RECURSIVE Elts(_, _, _, _)
Elts(toks, i, acc, expect) ==
    IF i > Len(toks) THEN [ok |-> TRUE, elts |-> acc]
    ELSE LET tk == toks[i] IN
         IF expect = "item"
         THEN IF IsAtom(tk)
              THEN Elts(toks, i + 1, Append(acc, AtomNode(tk)), "sep")
              ELSE [ok |-> FALSE, elts |-> <<>>]
         ELSE IF tk = O(",")
              THEN Elts(toks, i + 1, acc, "item")
              ELSE IF tk.t = "STRING" /\ IsStrConstant(acc[Len(acc)])
                   THEN Elts(toks, i + 1,
                             [acc EXCEPT ![Len(acc)] =
                                 ConstantNode(Str(acc[Len(acc)].val.str \o tk.v))],
                             "sep")
                   ELSE [ok |-> FALSE, elts |-> <<>>]

ParseExpr(e) ==
    IF Len(e) = 0 THEN InvalidNode
    ELSE IF e[1] = O("[")
    THEN IF Len(e) >= 2 /\ e[Len(e)] = O("]")
         THEN LET r == Elts(SubSeq(e, 2, Len(e) - 1), 1, <<>>, "item")
              IN IF r.ok THEN ListNode(r.elts) ELSE InvalidNode
         ELSE InvalidNode
    ELSE LET r == Elts(e, 1, <<>>, "item")
         IN IF r.ok /\ Len(r.elts) = 1 /\ e[Len(e)] # O(",")
               /\ \A j \in 1..Len(e) : e[j] # O(",")
            THEN r.elts[1] ELSE InvalidNode

\* NAME "=" expression
ParseStmt(toks) ==
    IF Len(toks) >= 3 /\ toks[1].t = "NAME" /\ toks[1].v \notin Keywords
       /\ toks[2] = O("=")
    THEN [node |-> "Assign", target |-> toks[1].v,
          value |-> ParseExpr(SubSeq(toks, 3, Len(toks)))]
    ELSE [node |-> "Invalid", target |-> "", value |-> InvalidNode]

IsValidStmt(st) == st.node = "Assign" /\ st.value.node # "Invalid"

Parse(lines) == [i \in 1..Len(lines) |-> ParseStmt(lines[i])]

-----------------------------------------------------------------------------
(* Execution *)

EvalAtom(nd, names) ==
    IF nd.node = "Constant" THEN nd.val
    ELSE names[nd.id]

Eval(nd, names) ==
    IF nd.node = "List"
    THEN IF \E j \in 1..Len(nd.elts) : EvalAtom(nd.elts[j], names) = Unbound
         THEN NameError
         ELSE List([j \in 1..Len(nd.elts) |-> EvalAtom(nd.elts[j], names)])
    ELSE IF EvalAtom(nd, names) = Unbound THEN NameError
         ELSE EvalAtom(nd, names)

\* the namespace the loader hands to the file
FreshNamespace(e) == [n \in Names |-> IF n = FileName THEN Str(e) ELSE Unbound]

\* the bindings of a namespace that are not the loader's own
Settings(names) == [n \in Names \ {FileName} |-> names[n]]

EmptyCode == <<>>

Init ==
    /\ status = [f \in Files |-> "new"]
    /\ pc = [f \in Files |-> 0]
    /\ env \in [Files -> Envs]
    /\ ns = [f \in Files |-> FreshNamespace(env[f])]
    /\ code = [f \in Files |-> EmptyCode]
    /\ loads = [f \in Files |-> 0]
    /\ prevNs = [f \in Files |-> FreshNamespace(env[f])]
    /\ prevEnv = [f \in Files |-> env[f]]

\* The builder starts: it prepares the namespace of a load of f in the
\* directory e.  What the previous load produced is remembered.
StartLoad(f, e) ==
    /\ status[f] \in {"new", "done"}
    /\ loads[f] < MaxLoads
    /\ loads' = [loads EXCEPT ![f] = @ + 1]
    /\ prevNs' = [prevNs EXCEPT ![f] = ns[f]]
    /\ prevEnv' = [prevEnv EXCEPT ![f] = env[f]]
    /\ env' = [env EXCEPT ![f] = e]
    /\ ns' = [ns EXCEPT ![f] = FreshNamespace(e)]
    /\ code' = [code EXCEPT ![f] = EmptyCode]
    /\ pc' = [pc EXCEPT ![f] = 0]
    /\ status' = [status EXCEPT ![f] = "compiling"]

\* The whole file is compiled before any statement runs.
Compile(f) ==
    /\ status[f] = "compiling"
    /\ LET c == Parse(Source(f)) IN
       IF \A i \in 1..Len(c) : IsValidStmt(c[i])
       THEN /\ code' = [code EXCEPT ![f] = c]
            /\ pc' = [pc EXCEPT ![f] = 1]
            /\ status' = [status EXCEPT ![f] = IF Len(c) = 0 THEN "done" ELSE "running"]
       ELSE /\ status' = [status EXCEPT ![f] = "SyntaxError"]
            /\ UNCHANGED <<code, pc>>
    /\ UNCHANGED <<ns, env, loads, prevNs, prevEnv>>

\* One statement of f runs.
Exec(f) ==
    /\ status[f] = "running"
    /\ LET st == code[f][pc[f]]
           v == Eval(st.value, ns[f])
       IN IF v = NameError
          THEN /\ status' = [status EXCEPT ![f] = "NameError"]
               /\ UNCHANGED <<ns, pc>>
          ELSE /\ ns' = [ns EXCEPT ![f][st.target] = v]
               /\ pc' = [pc EXCEPT ![f] = @ + 1]
               /\ status' = [status EXCEPT ![f] =
                                IF pc[f] = Len(code[f]) THEN "done" ELSE "running"]
    /\ UNCHANGED <<code, env, loads, prevNs, prevEnv>>

Next ==
    \E f \in Files :
        \/ \E e \in Envs : StartLoad(f, e)
        \/ Compile(f)
        \/ Exec(f)

Spec == Init /\ [][Next]_vars

\* Once a load has started the interpreter runs the file to its end.
FairSpec == Spec /\ \A f \in Files : WF_vars(Compile(f)) /\ WF_vars(Exec(f))

-----------------------------------------------------------------------------
(* Properties *)

Loaded(f) == status[f] = "done"

\* the setting names a namespace binds
Bound(names) == { n \in DOMAIN Settings(names) : names[n] # Unbound }

\* C1: once both files are loaded, every setting readthedocs/conf.py binds
\* (the thirteen names listed) is bound by docs/conf.py to an equal value,
\* and html_css_files is the only setting docs/conf.py binds in addition.
C1_NearIdentical ==
    (Loaded("docs") /\ Loaded("readthedocs")) =>
        /\ Bound(ns["readthedocs"]) =
              {"project", "copyright", "author", "extensions", "templates_path",
               "exclude_patterns", "autosectionlabel_prefix_document",
               "autosectionlabel_maxdepth", "html_theme", "html_logo",
               "html_title", "html_short_title", "html_static_path"}
        /\ \A n \in Bound(ns["readthedocs"]) : ns["docs"][n] = ns["readthedocs"][n]
        /\ Bound(ns["docs"]) \ Bound(ns["readthedocs"]) = {"html_css_files"}

C1_Witness ==
    /\ Loaded("docs") /\ Loaded("readthedocs")
    /\ ns["docs"]["html_static_path"] = List(<<Str("_static")>>)
    /\ ns["docs"]["html_css_files"] # Unbound

\* C2: in either file no statement assigns a name that is already bound, so
\* once the file is loaded every bound setting is the target of exactly one
\* statement and holds the value of that statement.
C2_SingleAssignment ==
    \A f \in Files :
        /\ status[f] = "running" => ns[f][code[f][pc[f]].target] = Unbound
        /\ Loaded(f) =>
              \A n \in Bound(ns[f]) :
                  /\ Cardinality({ i \in 1..Len(code[f]) : code[f][i].target = n }) = 1
                  /\ \A i \in 1..Len(code[f]) :
                        code[f][i].target = n => ns[f][n] = Eval(code[f][i].value, ns[f])

C2_Witness ==
    /\ Loaded("docs")
    /\ Cardinality(Bound(ns["docs"])) = 14
    /\ status["readthedocs"] = "running" /\ pc["readthedocs"] = 13

\* C3: once a file is loaded, project, copyright, author, html_theme,
\* html_logo, html_title and html_short_title are each bound to a string, and
\* extensions, templates_path, exclude_patterns and html_static_path are each
\* bound to a list of strings.
C3_Schema ==
    \A f \in Files :
        Loaded(f) =>
            /\ \A n \in {"project", "copyright", "author", "html_theme",
                         "html_logo", "html_title", "html_short_title"} :
                  ns[f][n].kind = "str"
            /\ \A n \in {"extensions", "templates_path", "exclude_patterns",
                         "html_static_path"} :
                  /\ ns[f][n].kind = "list"
                  /\ \A j \in 1..Len(ns[f][n].items) : ns[f][n].items[j].kind = "str"

C3_Witness ==
    /\ Loaded("readthedocs")
    /\ Len(ns["readthedocs"]["exclude_patterns"].items) = 3
    /\ Len(ns["readthedocs"]["html_static_path"].items) = 1

\* C4: whatever the directory a file is loaded in, its extensions setting is
\* the list of the eight pairwise-distinct sphinx.ext identifiers
\* autosectionlabel, autodoc, autosummary, doctest, todo, mathjax, ifconfig,
\* viewcode in this order, and the two files agree on it.
C4_Extensions ==
    \A f \in Files :
        Loaded(f) =>
            LET x == ns[f]["extensions"] IN
            /\ x = List(<<Str("sphinx.ext.autosectionlabel"), Str("sphinx.ext.autodoc"),
                          Str("sphinx.ext.autosummary"), Str("sphinx.ext.doctest"),
                          Str("sphinx.ext.todo"), Str("sphinx.ext.mathjax"),
                          Str("sphinx.ext.ifconfig"), Str("sphinx.ext.viewcode")>>)
            /\ Len(x.items) = 8
            /\ \A j, k \in 1..Len(x.items) : j # k => x.items[j] # x.items[k]
            /\ \A g \in Files : Loaded(g) => ns[g]["extensions"] = x

C4_Witness ==
    /\ Loaded("docs") /\ Loaded("readthedocs")
    /\ env["docs"] # env["readthedocs"]
    /\ Len(ns["docs"]["extensions"].items) = 8

\* C5: every statement of a compiled file assigns a literal (a constant or a
\* list of constants), a load leaves the binding the loader made untouched,
\* and a load binds the settings exactly as the previous load of the same
\* file did, whatever the directories of the two loads.
C5_LiteralOnly ==
    \A f \in Files :
        /\ status[f] \in {"running", "done"} =>
              \A i \in 1..Len(code[f]) :
                  /\ code[f][i].node = "Assign"
                  /\ code[f][i].target # FileName
                  /\ \/ code[f][i].value.node = "Constant"
                     \/ /\ code[f][i].value.node = "List"
                        /\ \A j \in 1..Len(code[f][i].value.elts) :
                              code[f][i].value.elts[j].node = "Constant"
        /\ ns[f][FileName] = Str(env[f])
        /\ (Loaded(f) /\ loads[f] >= 2) => Settings(ns[f]) = Settings(prevNs[f])

C5_Witness ==
    \E f \in Files :
        /\ Loaded(f) /\ loads[f] >= 2
        /\ env[f] # prevEnv[f]
        /\ Bound(prevNs[f]) # {}

\* C6: no load of either file ends in a syntax error or an evaluation error,
\* and every load that has started completes.
C6_LoadsWithoutError ==
    /\ [](\A f \in Files : status[f] \notin {"SyntaxError", "NameError"})
    /\ \A f \in Files : (status[f] = "compiling") ~> (status[f] = "done")

C6_Witness ==
    /\ Loaded("docs") /\ Loaded("readthedocs")
    /\ pc["docs"] = Len(DocsConf) + 1
    /\ pc["readthedocs"] = Len(ReadthedocsConf) + 1

====
